---- MODULE Spec2Model ----
(***************************************************************************)
(* Model of ubuntu_image_fetcher.py: the filename resolver                 *)
(* (get_filename_from_url), the duplicate detector (is_duplicate_image),   *)
(* the fetch orchestrator (download_image) and the driver loop (main).     *)
(*                                                                         *)
(* Python str values are TLA+ strings; Len, \o and SubSeq act on them as   *)
(* on sequences of characters.  A call that can raise returns a record     *)
(* [exc, val]: exc = "" when it returned val, else the exception's name.   *)
(***************************************************************************)
EXTENDS Integers, Sequences, FiniteSets, TLC

(***************************************************************************)
(* Bounds of the model.                                                    *)
(***************************************************************************)
\* longest list of URLs typed at the prompt
MaxBatch == 2
\* number of distinct response bodies the servers can send
NumBodies == 3
\* number of distinct MD5 digests (fewer than bodies: MD5 is many-to-one)
DigestSpace == 2
\* most calls made to download_image by a caller other than main
MaxCalls == 1

(***************************************************************************)
(* Python str primitives.                                                  *)
(***************************************************************************)
Ok(v) == [exc |-> "", val |-> v]

Raise(e) == [exc |-> e, val |-> ""]

\* s[i] (1-based)
Char(s, i) == SubSeq(s, i, i)

\* s[i:] with 1-based i
From(s, i) == SubSeq(s, i, Len(s))

\* s.startswith(p)
StartsWith(s, p) == Len(s) >= Len(p) /\ SubSeq(s, 1, Len(p)) = p

\* the least / greatest element of a set of indices, 0 for the empty set
MinIndex(hits) == IF hits = {} THEN 0 ELSE CHOOSE i \in hits : \A j \in hits : i <= j

MaxIndex(hits) == IF hits = {} THEN 0 ELSE CHOOSE i \in hits : \A j \in hits : i >= j

\* s.find(sub) + 1: the 1-based index of the first occurrence, 0 when absent
Find(s, sub) ==
    MinIndex({i \in 1..(Len(s) - Len(sub) + 1) : SubSeq(s, i, i + Len(sub) - 1) = sub})

\* s.rfind(sub) + 1: the 1-based index of the last occurrence, 0 when absent
RFind(s, sub) ==
    MaxIndex({i \in 1..(Len(s) - Len(sub) + 1) : SubSeq(s, i, i + Len(sub) - 1) = sub})

\* sub in s
Contains(s, sub) == Find(s, sub) # 0

\* s.split(sep): the list of the parts between the occurrences of sep
RECURSIVE Split(_, _)
SplitAt(s, sep, i) ==
    IF i = 0 THEN <<s>>
    ELSE <<SubSeq(s, 1, i - 1)>> \o Split(From(s, i + Len(sep)), sep)

Split(s, sep) == SplitAt(s, sep, Find(s, sep))

\* s.lstrip(chars), chars a set of characters
RECURSIVE LStrip(_, _)
LStrip(s, chars) ==
    IF Len(s) > 0 /\ Char(s, 1) \in chars THEN LStrip(From(s, 2), chars) ELSE s

\* s.rstrip(chars)
RECURSIVE RStrip(_, _)
RStrip(s, chars) ==
    IF Len(s) > 0 /\ Char(s, Len(s)) \in chars
    THEN RStrip(SubSeq(s, 1, Len(s) - 1), chars) ELSE s

\* s.strip(chars)
Strip(s, chars) == RStrip(LStrip(s, chars), chars)

Digits == {"0", "1", "2", "3", "4", "5", "6", "7", "8", "9"}

Letters == {"a", "b", "c", "d", "e", "f", "g", "h", "i", "j", "k", "l", "m",
            "n", "o", "p", "q", "r", "s", "t", "u", "v", "w", "x", "y", "z"}

DigitValue(c) == CHOOSE d \in 0..9 : Char("0123456789", d + 1) = c

RECURSIVE DecimalValue(_)
DecimalValue(s) ==
    IF s = "" THEN 0
    ELSE 10 * DecimalValue(SubSeq(s, 1, Len(s) - 1)) + DigitValue(Char(s, Len(s)))

\* int() of a stripped text: one sign is accepted, anything else but decimal
\* digits raises ValueError
SignedInt(sign, body) ==
    IF body = "" \/ \E i \in 1..Len(body) : Char(body, i) \notin Digits
    THEN Raise("ValueError")
    ELSE Ok(IF sign = "-" THEN 0 - DecimalValue(body) ELSE DecimalValue(body))

StrippedInt(t) ==
    IF Len(t) > 0 /\ Char(t, 1) \in {"-", "+"}
    THEN SignedInt(Char(t, 1), From(t, 2))
    ELSE SignedInt("", t)

\* int(s)
PyInt(s) == StrippedInt(Strip(s, {" "}))

(***************************************************************************)
(* urllib.parse.urlparse and os.path, as far as the program uses them.     *)
(***************************************************************************)
SchemeChars == Letters \cup Digits \cup {"+", "-", "."}

\* the scheme of a URL: the text before the first ":", when it starts with a
\* letter and holds scheme characters only
SchemeBefore(url, i) ==
    IF /\ i > 1
       /\ Char(url, 1) \in Letters
       /\ \A k \in 1..(i - 1) : Char(url, k) \in SchemeChars
    THEN SubSeq(url, 1, i - 1) ELSE ""

UrlScheme(url) == SchemeBefore(url, Find(url, ":"))

\* what follows the scheme and its ":"
AfterScheme(scheme, url) == IF scheme = "" THEN url ELSE From(url, Len(scheme) + 2)

\* the first index at which one of the delimiters occurs, Len + 1 if none
FirstOfOr(hits, none) == IF hits = {} THEN none ELSE MinIndex(hits)

FirstOf(s, delims) == FirstOfOr({i \in 1..Len(s) : Char(s, i) \in delims}, Len(s) + 1)

\* the text before the first of the delimiters
Before(s, delims) == SubSeq(s, 1, FirstOf(s, delims) - 1)

\* the path without the parameters of its last segment (";...")
CutParams(p, slash, semi) == IF semi = 0 THEN p ELSE SubSeq(p, 1, slash + semi - 1)

ParamsAfter(p, slash) == CutParams(p, slash, Find(From(p, slash + 1), ";"))

\* the path component: fragment, query and parameters are cut off
UrlPath(tail) == ParamsAfter(Before(Before(tail, {"#"}), {"?"}),
                             RFind(Before(Before(tail, {"#"}), {"?"}), "/"))

\* a netloc with an unbalanced square bracket raises ValueError
\* ("Invalid IPv6 URL")
Parsed(scheme, netloc, path) ==
    IF Contains(netloc, "[") # Contains(netloc, "]")
    THEN Raise("ValueError")
    ELSE Ok([scheme |-> scheme, netloc |-> netloc, path |-> path])

\* the netloc runs from the "//" to the next "/", "?" or "#"
ParseHier(scheme, rest) ==
    IF StartsWith(rest, "//")
    THEN Parsed(scheme, Before(From(rest, 3), {"/", "?", "#"}),
                UrlPath(From(rest, 2 + FirstOf(From(rest, 3), {"/", "?", "#"}))))
    ELSE Parsed(scheme, "", UrlPath(rest))

\* urlparse(url): [scheme, netloc, path], or ValueError
urlparse(url) == ParseHier(UrlScheme(url), AfterScheme(UrlScheme(url), url))

\* os.path.basename(p): what follows the last "/"
basename(p) == From(p, RFind(p, "/") + 1)

\* os.path.join(a, b): b alone when b is absolute
PathJoin(a, b) ==
    IF StartsWith(b, "/") THEN b
    ELSE IF a = "" \/ Char(a, Len(a)) = "/" THEN a \o b
    ELSE a \o "/" \o b

(***************************************************************************)
(* hashlib.md5                                                             *)
(***************************************************************************)
CharCode(c) == Find("abcdefghijklmnopqrstuvwxyz0123456789:/.-_[]?#;=\" ", c)

RECURSIVE MixUrl(_, _)
MixUrl(s, k) ==
    IF s = "" THEN k
    ELSE MixUrl(From(s, 2), (k * 31 + CharCode(Char(s, 1)) + 7) % 65536)

HexDigit(n) == Char("0123456789abcdef", n + 1)

Hex4(a) ==
    HexDigit(a % 16) \o HexDigit((a \div 16) % 16)
    \o HexDigit((a \div 256) % 16) \o HexDigit((a \div 4096) % 16)

\* hashlib.md5(url.encode()).hexdigest()[:8]: eight hexadecimal digits that
\* depend on the URL only
UrlHash8(url) == Hex4(MixUrl(url, 1)) \o Hex4(MixUrl(url, 2))

\* response bodies are the byte strings 0 .. NumBodies-1
Bodies == 0 .. (NumBodies - 1)

\* hashlib.md5(content).hexdigest(): a digest of fixed width, so distinct
\* byte strings can share one
ContentMD5(b) == b % DigestSpace

(***************************************************************************)
(* HTTP response headers: a function from the names of the headers that    *)
(* are present to their values.                                            *)
(***************************************************************************)
\* response.headers.get(name, default)
HeaderGet(headers, name, default) ==
    IF name \in DOMAIN headers THEN headers[name] ELSE default

(***************************************************************************)
(* get_filename_from_url(url, response)                                    *)
(***************************************************************************)
\* lines 24-27: the name after the Content-Disposition header was consulted
DispositionName(filename, content_disp) ==
    IF (filename = "" \/ ~Contains(filename, ".")) /\ Contains(content_disp, "filename=")
    THEN Strip(Split(content_disp, "filename=")[2], {"\"", "'"})
    ELSE filename

\* lines 35-38: the extension, the text between the first and second "/"
Extension(ext) == IF ext = "jpeg" THEN "jpg" ELSE ext

\* lines 31-42: the name generated from the URL's hash and the Content-Type
GeneratedName(url_hash, content_type) ==
    IF Contains(content_type, "image/")
    THEN "downloaded_image_" \o url_hash \o "." \o Extension(Split(content_type, "/")[2])
    ELSE "downloaded_image_" \o url_hash \o ".bin"

\* lines 30-44: the name is kept when it has a ".", generated otherwise
ChooseName(url, headers, filename) ==
    IF filename = "" \/ ~Contains(filename, ".")
    THEN GeneratedName(UrlHash8(url), HeaderGet(headers, "Content-Type", ""))
    ELSE filename

\* lines 20-44 once urlparse has returned
ResolveParsed(url, headers, parsed) ==
    IF parsed.exc # "" THEN Raise(parsed.exc)
    ELSE Ok(ChooseName(url, headers,
                       DispositionName(basename(parsed.val.path),
                                       HeaderGet(headers, "Content-Disposition", ""))))

get_filename_from_url(url, headers) == ResolveParsed(url, headers, urlparse(url))

(***************************************************************************)
(* The file system: dirs is the set of directories and fs maps each file   *)
(* to its bytes.  A location is the sequence of names from the root.       *)
(***************************************************************************)
\* the directory the program is started in
Cwd == <<"cwd">>

\* download_dir, the default of download_image's parameter
DownloadDir == "Fetched_Images"

\* where download_dir lies
DirLoc == Append(Cwd, DownloadDir)

\* the size limit of line 92
MaxBytes == 10 * 1024 * 1024

Parent(loc) == IF loc = <<>> THEN loc ELSE SubSeq(loc, 1, Len(loc) - 1)

\* the location one path component leads to
StepInto(loc, seg) ==
    IF seg \in {"", "."} THEN loc
    ELSE IF seg = ".." THEN Parent(loc)
    ELSE Append(loc, seg)

\* the kernel's path walk: every component but the last must be a directory
RECURSIVE Walk(_, _, _)
WalkTo(next, segs, ds) ==
    IF Len(segs) > 1 /\ next \notin ds
    THEN [found |-> FALSE, loc |-> next]
    ELSE Walk(next, Tail(segs), ds)

Walk(loc, segs, ds) ==
    IF segs = <<>> THEN [found |-> TRUE, loc |-> loc]
    ELSE WalkTo(StepInto(loc, Head(segs)), segs, ds)

\* the location a path string names, relative paths starting at Cwd
Resolve(path, ds) ==
    Walk(IF StartsWith(path, "/") THEN <<>> ELSE Cwd, Split(path, "/"), ds)

\* os.path.exists(path)
ExistsAt(r, ds, files) == r.found /\ (r.loc \in ds \/ r.loc \in DOMAIN files)

PathExists(path, ds, files) == ExistsAt(Resolve(path, ds), ds, files)

\* open(path, 'rb') succeeds: a file is there and the read does not fail
ReadableAt(r, files, readOk) == r.found /\ r.loc \in DOMAIN files /\ readOk

CanRead(path, ds, files, readOk) == ReadableAt(Resolve(path, ds), files, readOk)

\* open(path, 'wb') and the write succeed: the parent directory is there,
\* the path names no directory and the device does not fail
WritableAt(r, ds, writeOk) ==
    r.found /\ r.loc \notin ds /\ Parent(r.loc) \in ds /\ writeOk

CanWrite(path, ds, writeOk) == WritableAt(Resolve(path, ds), ds, writeOk)

\* a write that leaves an existing file as it is (mode 'xb' or 'ab' in place
\* of 'wb')
WriteFileKeepExisting(files, loc, content) ==
    [l \in DOMAIN files \cup {loc} |-> IF l \in DOMAIN files THEN files[l] ELSE content]

\* the file system after f.write(content) on a path opened with 'wb'
WriteFile(files, loc, content) ==
    [l \in DOMAIN files \cup {loc} |-> IF l = loc THEN content ELSE files[l]]

(***************************************************************************)
(* is_duplicate_image(filepath, content); readOk is whether reading the    *)
(* existing file succeeds (an IOError otherwise).                          *)
(***************************************************************************)
\* the check with line 51 inverted: an existing file is never a duplicate
is_duplicate_image_inverted(filepath, content, ds, files, readOk) ==
    IF PathExists(filepath, ds, files) THEN FALSE
    ELSE CanRead(filepath, ds, files, readOk)

\* the check failing closed: line 63 returning True
is_duplicate_image_fail_closed(filepath, content, ds, files, readOk) ==
    IF ~PathExists(filepath, ds, files) THEN FALSE
    ELSE IF ~CanRead(filepath, ds, files, readOk) THEN TRUE
    ELSE ContentMD5(content) = ContentMD5(files[Resolve(filepath, ds).loc])

is_duplicate_image(filepath, content, ds, files, readOk) ==
    IF ~PathExists(filepath, ds, files) THEN FALSE
    ELSE IF ~CanRead(filepath, ds, files, readOk) THEN FALSE
    ELSE ContentMD5(content) = ContentMD5(files[Resolve(filepath, ds).loc])

(***************************************************************************)
(* The inputs: URLs typed at the prompt and what the servers answer.       *)
(***************************************************************************)
Absent == "<absent>"

\* the header mapping of a response; Absent leaves the header out
MkHeaders(ctype, cdisp, clen) ==
    LET given == [n \in {"Content-Type", "Content-Disposition", "Content-Length"} |->
                    IF n = "Content-Type" THEN ctype
                    ELSE IF n = "Content-Disposition" THEN cdisp ELSE clen]
    IN  [n \in {m \in DOMAIN given : given[m] # Absent} |-> given[n]]

\* the entries of the list of line 135, already stripped
MainURLs == {"http://h/a.png", "http://h/g/42", "not-a-url", "http://[/a.png", ""}

\* the lists main can build: url_input is not empty, so the list is not <<"">>
Batches ==
    UNION {[1..n -> MainURLs] : n \in 1..MaxBatch} \ {<<"">>}

\* what a server may answer to a URL of a batch
BatchHeaders ==
    {MkHeaders(ct, cd, cl) :
        ct \in {"image/png", "text/html"},
        cd \in {Absent, "attachment; filename=\"pic.png\"",
                "attachment; filename=\"../x.png\""},
        cl \in {Absent, "11000000"}}

\* the URLs another caller may hand to download_image
DirectURLs == {"http://h/a.png", "http://h/g/42", "not-a-url", "http:///a.png",
               "ftp://h/a.png", "http://[/a.png"}

\* what a server may answer to them
DirectHeaders ==
    {MkHeaders(ct, cd, cl) :
        ct \in {Absent, "image/png", "image/jpeg", "text/html"},
        cd \in {Absent, "attachment; filename=\"pic.png\""},
        cl \in {Absent, "", "10485760", "10485761", "11000000", "abc", "-1"}}

\* the arguments get_filename_from_url is applied to on its own
ResolverURLs == {"http://h/a.png", "http://h/g/42", "http://h/g/", "http://h",
                 "http://h/g/a.png?v=1.2", "http://h/g/a.b;k=1", "not-a-url",
                 "http://[/a.png", "http://h/x.", ""}

ResolverHeaders ==
    {MkHeaders(ct, cd, Absent) :
        ct \in {Absent, "", "image/png", "image/jpeg", "image/", "text/html",
                "application/octet-stream; type=image/png"},
        cd \in {Absent, "", "attachment", "attachment; filename=",
                "attachment; filename=pic", "attachment; filename=\"pic.png\"",
                "attachment; filename='pic.png'",
                "attachment; filename=\"pic.png\"; size=1",
                "attachment; filename=\"../x.png\""}}

\* the length in bytes of a body: the last one is over the limit
BodyLen(b) == IF b = NumBodies - 1 THEN MaxBytes + 1 ELSE b + 1

(***************************************************************************)
(* State.                                                                  *)
(***************************************************************************)
VARIABLES
    urls,                  \* main: the list of URLs (line 135)
    i,                     \* main: how many entries of urls the loop has left behind
    successful_downloads,  \* main: the counter of line 136
    pc,                    \* the statement about to run
    url,                   \* download_image: its argument
    resp,                  \* download_image: response (headers and content)
    filename,              \* download_image: line 96
    filepath,              \* download_image: line 97
    outcome,               \* the message and success flag returned or printed
    dirs,                  \* file system: the directories
    fs,                    \* file system: the files and their bytes
    steps,                 \* history: the steps the current request entered
    netCalls,              \* history: connections opened for the current request
    bodyRead,              \* history: the response body was downloaded
    fs0,                   \* history: fs when the current request began
    results,               \* history: the URLs processed and their success flags
    dirs0,                 \* history: dirs when the current request began
    readFailed,            \* history: the duplicate check could not read the file
    caller,                \* who called download_image: "main" or "direct"
    calls,                 \* how often download_image was called directly
    result                 \* what get_filename_from_url returned, applied alone

vars == <<urls, i, successful_downloads, pc, url, resp, filename, filepath, outcome,
          dirs, fs, steps, netCalls, bodyRead, fs0, dirs0, readFailed, results,
          caller, calls, result>>

NoHeaders == [n \in {} |-> ""]

NoResp == [headers |-> NoHeaders, body |-> 0]

NoOutcome == [success |-> FALSE, kind |-> "none", detail |-> ""]

NoResult == [exc |-> "unset", val |-> ""]

NoFiles == [l \in {} |-> 0]

InitCommon ==
    /\ successful_downloads = 0
    /\ i = 0
    /\ filename = ""
    /\ filepath = ""
    /\ outcome = NoOutcome
    /\ dirs = {<<>>, Cwd}
    /\ fs = NoFiles
    /\ steps = <<>>
    /\ netCalls = 0
    /\ bodyRead = FALSE
    /\ fs0 = NoFiles
    /\ dirs0 = {<<>>, Cwd}
    /\ readFailed = FALSE
    /\ results = <<>>
    /\ calls = 0
    /\ result = NoResult

\* main has read the URLs and is at the head of its loop
Init ==
    /\ InitCommon
    /\ urls \in Batches
    /\ url = ""
    /\ resp = NoResp
    /\ caller = "main"
    /\ pc = "main"

\* main as above, or another caller about to call download_image
InitCallers ==
    /\ InitCommon
    /\ url = ""
    /\ resp = NoResp
    /\ \/ urls \in Batches /\ caller = "main" /\ pc = "main"
       \/ urls = <<>> /\ caller = "direct" /\ pc = "idle"

\* get_filename_from_url is about to be applied to a URL and a response
InitResolver ==
    /\ InitCommon
    /\ urls = <<>>
    /\ url \in ResolverURLs
    /\ resp \in {[headers |-> h, body |-> 0] : h \in ResolverHeaders}
    /\ caller = "direct"
    /\ pc = "resolver"

mainVars == <<urls, i, successful_downloads, results>>

fileVars == <<dirs, fs>>

\* the locals of download_image at its first statement
Enter(u) ==
    /\ url' = u
    /\ resp' = NoResp
    /\ filename' = ""
    /\ filepath' = ""
    /\ outcome' = NoOutcome
    /\ netCalls' = 0
    /\ bodyRead' = FALSE
    /\ fs0' = fs
    /\ dirs0' = dirs
    /\ readFailed' = FALSE
    /\ pc' = "makedirs"

(***************************************************************************)
(* main, lines 138-155.                                                    *)
(***************************************************************************)
\* lines 139-140: an empty entry is skipped
MainSkipEmpty ==
    /\ pc = "main" /\ i < Len(urls) /\ urls[i + 1] = ""
    /\ i' = i + 1
    /\ UNCHANGED <<urls, successful_downloads, pc, url, resp, filename, filepath,
                   outcome, dirs, fs, steps, netCalls, bodyRead, fs0, results,
                   calls, result, caller, dirs0, readFailed>>

\* line 145: urlparse raises and nothing in main catches it
MainCrash ==
    /\ pc = "main" /\ i < Len(urls) /\ urls[i + 1] # ""
    /\ urlparse(urls[i + 1]).exc # ""
    /\ pc' = "crashed"
    /\ url' = urls[i + 1]
    /\ steps' = <<"validate">>
    /\ outcome' = NoOutcome
    /\ UNCHANGED <<urls, i, successful_downloads, resp, filename, filepath, dirs, fs,
                   netCalls, bodyRead, fs0, results, calls, result, caller, dirs0, readFailed>>

\* line 146: the URL lacks a scheme or a host
LacksSchemeOrHost(parsed) == parsed.val.scheme = "" \/ parsed.val.netloc = ""

\* lines 145-148: a URL without scheme or host is reported and left behind
MainInvalid ==
    /\ pc = "main" /\ i < Len(urls) /\ urls[i + 1] # ""
    /\ urlparse(urls[i + 1]).exc = ""
    /\ LacksSchemeOrHost(urlparse(urls[i + 1]))
    /\ url' = urls[i + 1]
    /\ steps' = <<"validate">>
    /\ netCalls' = 0
    /\ bodyRead' = FALSE
    /\ fs0' = fs
    /\ dirs0' = dirs
    /\ readFailed' = FALSE
    /\ outcome' = [success |-> FALSE, kind |-> "invalid_url", detail |-> urls[i + 1]]
    /\ results' = Append(results, [url |-> urls[i + 1], success |-> FALSE])
    /\ i' = i + 1
    /\ UNCHANGED <<urls, successful_downloads, pc, resp, filename, filepath, dirs, fs,
                   calls, result, caller>>

\* lines 145-151: a URL with scheme and host is handed to download_image
MainCall ==
    /\ pc = "main" /\ i < Len(urls) /\ urls[i + 1] # ""
    /\ urlparse(urls[i + 1]).exc = ""
    /\ ~LacksSchemeOrHost(urlparse(urls[i + 1]))
    /\ Enter(urls[i + 1])
    /\ steps' = <<"validate">>
    /\ UNCHANGED <<mainVars, fileVars, calls, result, caller>>

\* lines 151-155: the returned message is printed and a success counted
MainReceive ==
    /\ pc = "return" /\ caller = "main"
    /\ successful_downloads' = successful_downloads + (IF outcome.success THEN 1 ELSE 0)
    /\ results' = Append(results, [url |-> url, success |-> outcome.success])
    /\ i' = i + 1
    /\ pc' = "main"
    /\ UNCHANGED <<urls, url, resp, filename, filepath, outcome, dirs, fs, steps,
                   netCalls, bodyRead, fs0, calls, result, caller, dirs0, readFailed>>

\* lines 157-163: the loop is over
MainEnd ==
    /\ pc = "main" /\ i = Len(urls)
    /\ pc' = "end"
    /\ UNCHANGED <<urls, i, successful_downloads, url, resp, filename, filepath,
                   outcome, dirs, fs, steps, netCalls, bodyRead, fs0, results, calls,
                   result, caller, dirs0, readFailed>>

(***************************************************************************)
(* download_image, lines 70-118.                                           *)
(***************************************************************************)
\* return (message, False), from a gate or from an except clause
Fail(kind, detail) ==
    /\ outcome' = [success |-> FALSE, kind |-> kind, detail |-> detail]
    /\ pc' = "return"

\* return (message, True)
Succeed(kind, detail) ==
    /\ outcome' = [success |-> TRUE, kind |-> kind, detail |-> detail]
    /\ pc' = "return"

\* line 72: os.makedirs(download_dir, exist_ok=True)
MakeDirs ==
    /\ pc = "makedirs"
    /\ steps' = Append(steps, "mkdir")
    /\ \/ /\ DirLoc \in dirs
          /\ pc' = "get"
          /\ UNCHANGED <<dirs, outcome>>
       \/ /\ DirLoc \notin dirs /\ DirLoc \notin DOMAIN fs
          /\ dirs' = dirs \cup {DirLoc}
          /\ pc' = "get"
          /\ UNCHANGED outcome
       \/ /\ DirLoc \notin dirs
          /\ Fail("unexpected", "OSError")
          /\ UNCHANGED dirs
    /\ UNCHANGED <<mainVars, url, resp, filename, filepath, fs, netCalls, bodyRead,
                   fs0, calls, result, caller, dirs0, readFailed>>

\* requests refuses a URL before it opens a connection: MissingSchema,
\* InvalidURL and InvalidSchema are RequestExceptions
Refusal(parsed) ==
    IF parsed.scheme = "" THEN "Invalid URL: No scheme supplied"
    ELSE IF parsed.scheme \notin {"http", "https"} THEN "No connection adapters were found"
    ELSE IF parsed.netloc = "" THEN "Invalid URL: No host supplied"
    ELSE ""

\* line 82: requests.get(url, ...) answers; the server's reply is any of
\* headerSets x Bodies.  With the default stream=False the whole body is
\* read before requests.get returns, also for a status raise_for_status
\* turns into HTTPError.
Connect(headerSets) ==
    /\ netCalls' = netCalls + 1
    /\ \/ /\ \E e \in {"timeout", "connection_error", "network_error"} : Fail(e, "")
          /\ UNCHANGED <<resp, bodyRead>>
       \/ /\ bodyRead' = TRUE
          /\ Fail("http_error", "404")
          /\ UNCHANGED resp
       \/ /\ bodyRead' = TRUE
          /\ \E h \in headerSets, b \in Bodies : resp' = [headers |-> h, body |-> b]
          /\ pc' = "type_gate"
          /\ UNCHANGED outcome

\* lines 79-83 with a client that connects without looking at the URL
GetParsedUnchecked(headerSets, parsed) ==
    IF parsed.exc # ""
    THEN Fail("unexpected", "Invalid IPv6 URL") /\ UNCHANGED <<resp, netCalls, bodyRead>>
    ELSE Connect(headerSets)

\* lines 79-83 once urlparse(url) of line 79 has returned or raised
GetParsed(headerSets, parsed) ==
    IF parsed.exc # ""
    THEN Fail("unexpected", "Invalid IPv6 URL") /\ UNCHANGED <<resp, netCalls, bodyRead>>
    ELSE IF Refusal(parsed.val) # ""
    THEN Fail("network_error", Refusal(parsed.val)) /\ UNCHANGED <<resp, netCalls, bodyRead>>
    ELSE Connect(headerSets)

\* lines 79-83: print the host, requests.get and raise_for_status
Get(headerSets) ==
    /\ pc = "get"
    /\ steps' = Append(steps, "get")
    /\ GetParsed(headerSets, urlparse(url))
    /\ UNCHANGED <<mainVars, fileVars, url, filename, filepath, fs0, calls, result, caller, dirs0, readFailed>>

\* lines 86-88: the content-type gate
TypeGate ==
    /\ pc = "type_gate"
    /\ steps' = Append(steps, "type")
    /\ LET content_type == HeaderGet(resp.headers, "Content-Type", "")
       IN  IF ~StartsWith(content_type, "image/")
           THEN Fail("not_image", content_type)
           ELSE pc' = "size_gate" /\ UNCHANGED outcome
    /\ UNCHANGED <<mainVars, fileVars, url, resp, filename, filepath, netCalls,
                   bodyRead, fs0, calls, result, caller, dirs0, readFailed>>

\* line 92: int(content_length) > 10 * 1024 * 1024
OverLimit(n) ==
    IF n.exc # "" THEN Fail("unexpected", "ValueError")
    ELSE IF n.val > MaxBytes THEN Fail("too_large", "")
    ELSE pc' = "resolve" /\ UNCHANGED outcome

\* lines 91-93: the size gate; a missing or empty Content-Length is not
\* looked at, int() of a malformed one raises ValueError
SizeGate ==
    /\ pc = "size_gate"
    /\ steps' = Append(steps, "size")
    /\ IF HeaderGet(resp.headers, "Content-Length", "") = ""
       THEN pc' = "resolve" /\ UNCHANGED outcome
       ELSE OverLimit(PyInt(HeaderGet(resp.headers, "Content-Length", "")))
    /\ UNCHANGED <<mainVars, fileVars, url, resp, filename, filepath, netCalls,
                   bodyRead, fs0, calls, result, caller, dirs0, readFailed>>

\* lines 96-97 once get_filename_from_url has returned or raised
Named(r) ==
    IF r.exc # ""
    THEN Fail("unexpected", r.exc) /\ UNCHANGED <<filename, filepath>>
    ELSE /\ filename' = r.val
         /\ filepath' = PathJoin(DownloadDir, r.val)
         /\ pc' = "dedup"
         /\ UNCHANGED outcome

\* lines 96-97: the filename and the path of the file
ResolveName ==
    /\ pc = "resolve"
    /\ steps' = Append(steps, "name")
    /\ Named(get_filename_from_url(url, resp.headers))
    /\ UNCHANGED <<mainVars, fileVars, url, resp, netCalls, bodyRead, fs0, calls,
                   result, caller, dirs0, readFailed>>

\* lines 100-101: the duplicate check, and the return when it finds one
DedupCheck ==
    /\ pc = "dedup"
    /\ \E readOk \in BOOLEAN :
          /\ readFailed' = (/\ PathExists(filepath, dirs, fs)
                            /\ ~CanRead(filepath, dirs, fs, readOk))
          /\ IF is_duplicate_image(filepath, resp.body, dirs, fs, readOk)
             THEN /\ Succeed("exists", filename)
                  /\ steps' = steps \o <<"dedup", "skip">>
             ELSE /\ pc' = "write"
                  /\ steps' = Append(steps, "dedup")
                  /\ UNCHANGED outcome
    /\ UNCHANGED <<mainVars, fileVars, url, resp, filename, filepath, netCalls,
                   bodyRead, fs0, dirs0, caller, calls, result>>

\* lines 104-107: the file is written; an OSError lands in line 117
WriteImage ==
    /\ pc = "write"
    /\ steps' = Append(steps, "write")
    /\ \E writeOk \in BOOLEAN :
          IF CanWrite(filepath, dirs, writeOk)
          THEN /\ fs' = WriteFile(fs, Resolve(filepath, dirs).loc, resp.body)
               /\ Succeed("saved", filename)
          ELSE /\ Fail("unexpected", "OSError")
               /\ UNCHANGED fs
    /\ UNCHANGED <<mainVars, dirs, url, resp, filename, filepath, netCalls, bodyRead,
                   fs0, calls, result, caller, dirs0, readFailed>>

(***************************************************************************)
(* Another caller of download_image, and get_filename_from_url on its own. *)
(***************************************************************************)
\* download_image(u) is called with any URL, validated or not
DirectCall ==
    /\ pc = "idle" /\ calls < MaxCalls
    /\ \E u \in DirectURLs : Enter(u)
    /\ steps' = <<>>
    /\ calls' = calls + 1
    /\ UNCHANGED <<mainVars, fileVars, caller, result>>

\* the caller has the returned pair
DirectReturn ==
    /\ pc = "return" /\ caller = "direct"
    /\ pc' = "idle"
    /\ UNCHANGED <<mainVars, fileVars, url, resp, filename, filepath, outcome, steps,
                   netCalls, bodyRead, fs0, dirs0, readFailed, caller, calls, result>>

\* get_filename_from_url(url, response) is evaluated
ApplyResolver ==
    /\ pc = "resolver"
    /\ result' = get_filename_from_url(url, resp.headers)
    /\ pc' = "resolved"
    /\ UNCHANGED <<mainVars, fileVars, url, resp, filename, filepath, outcome, steps,
                   netCalls, bodyRead, fs0, dirs0, readFailed, caller, calls>>

\* requests.get for a URL of main's list / of another caller
GetMain == caller = "main" /\ Get(BatchHeaders)

GetDirect == caller = "direct" /\ Get(DirectHeaders)

Next ==
    \/ MainSkipEmpty
    \/ MainCrash
    \/ MainInvalid
    \/ MainCall
    \/ MainReceive
    \/ MainEnd
    \/ MakeDirs
    \/ GetMain
    \/ TypeGate
    \/ SizeGate
    \/ ResolveName
    \/ DedupCheck
    \/ WriteImage

\* the program as it is run: main and what it calls
Spec == Init /\ [][Next]_vars

NextCallers ==
    \/ Next
    \/ DirectCall
    \/ DirectReturn
    \/ GetDirect

\* download_image called by main or by another caller
SpecCallers == InitCallers /\ [][NextCallers]_vars

NextResolver == ApplyResolver

\* get_filename_from_url applied to any URL and header mapping
SpecResolver == InitResolver /\ [][NextResolver]_vars

(***************************************************************************)
(* Properties.                                                             *)
(***************************************************************************)
\* the elements of a sequence
Range(f) == {f[k] : k \in DOMAIN f}

\* download_image has returned and its locals are still in place
Returned == pc = "return"

\* the file the resolved path names
FileLoc == Resolve(filepath, dirs).loc

\* line 96 was passed: filename and filepath are set
HasPath == filepath # "" /\ Resolve(filepath, dirs).found

\* when the request began, the resolved path held a file
HeldBefore == HasPath /\ FileLoc \in DOMAIN fs0

\* ... whose bytes equal the response body
HeldEqualBefore == HeldBefore /\ fs0[FileLoc] = resp.body

\* the request skipped the write and touched no file
NoWriteDone == outcome.kind = "exists" /\ outcome.success /\ "write" \notin Range(steps) /\ fs = fs0

\* C1 as stated: a request whose resolved path already holds the bytes of the
\* response body ends in the 'already exists' Success without a write, and
\* the files are as they were before the call.
C1_AsStated == (Returned /\ HeldEqualBefore) => NoWriteDone

\* C1, amended: the same, provided the duplicate check could read the
\* existing file.
C1_IdempotentWhenReadable ==
    (Returned /\ HeldEqualBefore /\ ~readFailed) => NoWriteDone

\* the second fetch of a URL finds the bytes of the first and skips the write
C1_Witness ==
    /\ Returned /\ HeldEqualBefore /\ ~readFailed /\ NoWriteDone
    /\ results # <<>> /\ results[Len(results)] = [url |-> url, success |-> TRUE]

\* C2 as stated: after a Success of either kind the file at the resolved
\* path exists and its bytes are exactly the response body.
C2_AsStated ==
    (Returned /\ outcome.success) =>
        (HasPath /\ FileLoc \in DOMAIN fs /\ fs[FileLoc] = resp.body)

\* C2, amended: after 'saved' the file holds exactly the response body;
\* after 'already exists' it holds bytes with the MD5 digest of the body.
C2_SuccessMeansStored ==
    (Returned /\ outcome.success) =>
        /\ HasPath /\ FileLoc \in DOMAIN fs
        /\ outcome.kind \in {"saved", "exists"}
        /\ outcome.kind = "saved" => fs[FileLoc] = resp.body
        /\ outcome.kind = "exists" => ContentMD5(fs[FileLoc]) = ContentMD5(resp.body)

\* a later request overwrote different bytes stored under the same name
C2_Witness ==
    /\ Returned /\ outcome.success /\ outcome.kind = "saved"
    /\ HeldBefore /\ fs0[FileLoc] # resp.body /\ fs[FileLoc] = resp.body

\* the order of the steps of a request
StepOrder == <<"validate", "mkdir", "get", "type", "size", "name", "dedup">>

IsPrefix(a, b) == Len(a) <= Len(b) /\ SubSeq(b, 1, Len(a)) = a

\* the request is over: download_image returned, or main reported the URL
\* itself, or the run stopped
RequestOver == steps # <<>> /\ pc \in {"return", "main", "end", "crashed"}

\* C3: the steps are entered in the fixed order, each only after the earlier
\* ones, ending in skip or write; a request that stops earlier, or whose
\* write fails, ends in a Failure outcome (and a complete one without a
\* failed write in a Success).
C3_FixedOrder ==
    /\ \/ IsPrefix(steps, StepOrder)
       \/ steps \in {StepOrder \o <<"skip">>, StepOrder \o <<"write">>}
    /\ RequestOver =>
          /\ outcome.kind # "none"
          /\ outcome.success => steps \in {StepOrder \o <<"skip">>, StepOrder \o <<"write">>}
          /\ ~outcome.success => "skip" \notin Range(steps)

\* the URL has a shape urlparse accepts and lacks a scheme or a host
InvalidShape(u) == u # "" /\ urlparse(u).exc = "" /\ LacksSchemeOrHost(urlparse(u))

\* the request for url is over, reported by main or returned by download_image
Reported == pc = "return" \/ (pc = "main" /\ outcome.kind = "invalid_url")

MentionsInvalidUrl ==
    outcome.kind = "invalid_url" \/ Contains(outcome.detail, "Invalid URL")

NoFileTouched ==
    fs = fs0 /\ "dedup" \notin Range(steps) /\ "write" \notin Range(steps)

ContentLength == HeaderGet(resp.headers, "Content-Length", "")

ImageType == StartsWith(HeaderGet(resp.headers, "Content-Type", ""), "image/")

\* C5: an image response whose Content-Length is an integer above 10485760
\* is rejected, before the body is read and before a file is read or
\* written; a value of 10485760 or less passes, and without the header the
\* body is accepted whatever its length.
C5_SizeGate ==
    /\ (outcome.kind = "too_large" /\ Returned) =>
          /\ ~outcome.success
          /\ ~bodyRead
          /\ NoFileTouched
    /\ ("size" \in Range(steps) /\ pc # "size_gate" /\ ImageType /\ ContentLength # ""
          /\ PyInt(ContentLength).exc = "") =>
          (outcome.kind = "too_large" <=> PyInt(ContentLength).val > MaxBytes)
    /\ ("size" \in Range(steps) /\ pc # "size_gate" /\ ContentLength = "") =>
          outcome.kind # "too_large"

\* get_filename_from_url has been applied to url and resp.headers
Resolved == pc = "resolved"

\* the three-rule resolver of the specification: the value of the filename=
\* directive runs to the next ";", the subtype of the Content-Type likewise
RefDirective(cdisp) ==
    Strip(Strip(Before(Split(cdisp, "filename=")[2], {";"}), {" "}), {"\"", "'"})

RefExtension(ctype) ==
    IF StartsWith(ctype, "image/")
    THEN Extension(Strip(Before(From(ctype, 7), {";"}), {" "}))
    ELSE "bin"

RefRule2(u, cdisp, ctype) ==
    IF Contains(cdisp, "filename=") /\ Contains(RefDirective(cdisp), ".")
    THEN RefDirective(cdisp)
    ELSE "downloaded_image_" \o UrlHash8(u) \o "." \o RefExtension(ctype)

RefRule1(u, segment, headers) ==
    IF segment # "" /\ Contains(segment, ".") THEN segment
    ELSE RefRule2(u, HeaderGet(headers, "Content-Disposition", ""),
                  HeaderGet(headers, "Content-Type", ""))

RefName(u, headers) == RefRule1(u, basename(urlparse(u).val.path), headers)

\* C6: for every URL and header mapping get_filename_from_url returns what
\* the three rules give: the dotted last path segment, else the dotted
\* filename= value of Content-Disposition without its quotes, else
\* downloaded_image_<hash8>.<ext> with ext the image subtype (jpeg as jpg)
\* and bin when Content-Type does not start with image/.
C6_ThreeRules ==
    Resolved => (result.exc = "" /\ result.val = RefName(url, resp.headers))

\* a "." with text on both sides of it
HasExtension(name) == \E k \in 2..(Len(name) - 1) : Char(name, k) = "."

\* C7: get_filename_from_url returns for every URL and header mapping, never
\* raises, and the name it returns is not empty and has a "." between a name
\* part and an extension part.
C7_TotalAndUsable ==
    Resolved => (result.exc = "" /\ result.val # "" /\ HasExtension(result.val))

IsNonEmpty(u) == u # ""

Processed == [k \in DOMAIN results |-> results[k].url]

\* C8: no fault escapes to the driver; the URLs processed so far are the
\* first non-empty entries of the list, in order; every call of
\* download_image returns an outcome; and when the loop is over every
\* non-empty entry was processed once and the counter is the number of
\* Success outcomes.
C8_BatchIsolation ==
    /\ pc # "crashed"
    /\ IsPrefix(Processed, SelectSeq(urls, IsNonEmpty))
    /\ Returned => outcome.kind # "none"
    /\ pc = "end" =>
          /\ Processed = SelectSeq(urls, IsNonEmpty)
          /\ successful_downloads = Cardinality({k \in DOMAIN results : results[k].success})

\* a location directly under download_dir
DirectChild(loc) == Parent(loc) = DirLoc /\ loc # DirLoc

\* C9: the path handed to the duplicate check and to the write is a direct
\* child of download_dir, and every file the program created lies directly
\* under download_dir.
C9_StaysInDirectory ==
    /\ pc \in {"dedup", "write"} => (HasPath /\ DirectChild(FileLoc))
    /\ \A loc \in DOMAIN fs : DirectChild(loc)

\* the duplicate check has run / has found a duplicate
DedupDone == "dedup" \in Range(steps)

FoundDuplicate == "skip" \in Range(steps)

WriteAttempted == pc = "write" \/ "write" \in Range(steps)

\* C10 as stated: the check answers 'duplicate' exactly when the file exists,
\* can be read and its bytes equal the new content; otherwise, also after a
\* failed read, download_image goes on to the write.
C10_AsStated ==
    DedupDone =>
        /\ FoundDuplicate <=> (HeldBefore /\ ~readFailed /\ fs0[FileLoc] = resp.body)
        /\ ~FoundDuplicate => WriteAttempted

\* C10, amended: the check answers 'duplicate' exactly when the file exists,
\* can be read and its bytes have the MD5 digest of the new content (files
\* under other names play no part); otherwise, also after a failed read,
\* download_image goes on to the write.
C10_FailOpenByPath ==
    DedupDone =>
        /\ FoundDuplicate <=>
              (HeldBefore /\ ~readFailed
                 /\ ContentMD5(fs0[FileLoc]) = ContentMD5(resp.body))
        /\ ~FoundDuplicate => WriteAttempted

\* the existing file held the new bytes but could not be read: the check
\* answered 'not a duplicate' and the file was written again
C10_Witness ==
    /\ Returned /\ DedupDone /\ readFailed /\ ~FoundDuplicate
    /\ HeldEqualBefore /\ outcome.kind = "saved"

====
